---- MODULE Spec2Model ----
(***************************************************************************)
(* Model of chal.py, the combo simulator of Cafe y Pizzas El Chal.         *)
(*                                                                         *)
(* The program is a Streamlit script: every operator interaction reruns    *)
(* the whole script top to bottom.  One action of the model is one such    *)
(* run, triggered by exactly one widget.                                   *)
(*                                                                         *)
(* Money is held as exact rationals [n, d] in pesos (the code uses binary  *)
(* floats; the model ignores float rounding error).  Food-cost fractions   *)
(* and percentages are held as integer hundredths.                         *)
(* Strings with accents are written in ASCII ("Bebidas Frias").            *)
(***************************************************************************)
EXTENDS Integers, Sequences, FiniteSets, TLC

\* ------------------------------------------------------------------------
\* Bounds of the model
\* ------------------------------------------------------------------------
\* largest quantity of one line item drawn for evaluator inputs and AI answers
MaxQty == 2
\* longest line-item list drawn for evaluator inputs
MaxEvalLen == 3
\* number of script reruns (operator interactions) followed in one session
MaxRuns == 3

\* ------------------------------------------------------------------------
\* Exact rational arithmetic
\* ------------------------------------------------------------------------
Abs(x) == IF x < 0 THEN -x ELSE x

RECURSIVE GCD(_, _)
GCD(a, b) == IF b = 0 THEN a ELSE GCD(b, a % b)

\* the rational n/d in lowest terms with a positive denominator
R(n, d) ==
    LET s == IF d < 0 THEN -1 ELSE 1
        g == GCD(Abs(n), Abs(d))
    IN  [n |-> (s * n) \div g, d |-> (s * d) \div g]

Z(i) == [n |-> i, d |-> 1]
RAdd(x, y) == R(x.n * y.d + y.n * x.d, x.d * y.d)
RSub(x, y) == R(x.n * y.d - y.n * x.d, x.d * y.d)
RMul(x, y) ==
    LET a == R(x.n, y.d)
        b == R(y.n, x.d)
    IN  R(a.n * b.n, a.d * b.d)
RDiv(x, y) == RMul(x, R(y.d, y.n))
RLt(x, y) == x.n * y.d < y.n * x.d
RLe(x, y) == x.n * y.d <= y.n * x.d
RMax(x, y) == IF RLt(x, y) THEN y ELSE x
Pct(p) == R(p, 100)

\* round(x, 2): nearest multiple of 0.01, ties to even
Round2(x) ==
    LET num == x.n * 100
        q   == num \div x.d
        rem == num - q * x.d
    IN  IF 2 * rem < x.d THEN R(q, 100)
        ELSE IF 2 * rem > x.d THEN R(q + 1, 100)
        ELSE IF q % 2 = 0 THEN R(q, 100) ELSE R(q + 1, 100)

\* ------------------------------------------------------------------------
\* The built-in menu (a slice of DEFAULT_MENU) and the cost defaults
\* ------------------------------------------------------------------------
\* a missing cell of the table, and Python's None for a missing price
NaN == -1
None == [n |-> 0, d |-> 0]

MenuRow(id, cat, prod, actual, apps, pmin) ==
    [ID |-> id, Categoria |-> cat, Producto |-> prod,
     PrecioActual |-> actual, PrecioApps |-> apps, PrecioMinimo |-> pmin]

DEFAULT_MENU ==
    << MenuRow("D002", "Desayunos", "Huevos al gusto", 85, 149, 89),
       MenuRow("P003", "Pizzas Personales", "Pepperoni", 150, 229, 149),
       MenuRow("SN06", "Snacks", "Nudos", 45, 65, 55),
       MenuRow("B001", "Bebidas Calientes", "Cafe Americano", 33, 49, 39),
       MenuRow("B007", "Bebidas Frias", "Coca Cola", 35, 49, 45),
       MenuRow("E012", "Extras", "Empaque para Llevar", 5, NaN, 9) >>

\* food-cost defaults in hundredths; 33 for a category the table lacks
defaults(cat) ==
    CASE cat = "Desayunos" -> 35
      [] cat = "Pizzas Personales" -> 32
      [] cat = "Snacks" -> 30
      [] cat = "Bebidas Calientes" -> 25
      [] cat = "Bebidas Frias" -> 28
      [] cat = "Extras" -> 15
      [] OTHER -> 33

\* the base-price radio: label -> column of the table
BaseColNames == {"Precio Actual", "Precio en Apps"}
base_map(name) == IF name = "Precio Actual" THEN "PrecioActual" ELSE "PrecioApps"

VARIABLES
    up,               \* the file in the CSV uploader of the latest run
    halt,             \* where the load of the latest run halted, "" if it did not
    df,               \* the menu table: a sequence of rows
    cat_cost_pct,     \* slider values: category -> food-cost fraction (hundredths)
    base_col_name,    \* the base-price radio
    app_commission,   \* commission slider, percent
    packaging,        \* packaging cost per combo, pesos
    other_var,        \* other variable cost per combo, pesos
    ev_items,         \* evaluator call: the line items passed
    ev_price,         \* evaluator call: the trial price passed
    ev_out,           \* evaluator call: the dictionary returned
    n_combos,         \* generator widgets: how many combos to propose
    min_items,        \*   minimum items per combo
    max_items,        \*   maximum items per combo
    ensure_min_price, \*   checkbox "force >= sum of minimum prices"
    combos,           \* heuristic_combos call: the list returned
    pc,               \* position of a function call: "ready", "returned"
    GEMINI_AVAILABLE, \* whether the Gemini client was configured at load
    session_state,    \* st.session_state: key -> value, for the keys present
    modo_precio,      \* editor widgets: pricing strategy radio
    desc,             \*   discount slider, percent
    target_margin,    \*   target-margin slider, percent
    enforce_min,      \*   checkbox "force >= sum of minimums"
    trigger,          \* the widget interaction that caused the latest run
    out,              \* the generate handler's local `out` in the latest run
    st_error,         \* whether the latest run showed an error to the operator
    editor,           \* what the editor section displayed in the latest run
    payload,          \* the export document built in the latest run
    runs              \* number of reruns so far

\* ------------------------------------------------------------------------
\* Loading the table: the optional CSV, parse_money, pick_col
\* ------------------------------------------------------------------------
\* the uploader: untouched, a file read_csv rejects, or a table given by its
\* header and its rows (column name -> cell).  A text cell is a string, ""
\* when the field is empty; a money cell is the sequence of its characters.
NoUpload == [kind |-> "none"]
Unreadable == [kind |-> "unreadable"]
Csv(cols, rows) == [kind |-> "csv", cols |-> cols, rows |-> rows]

Digits == {"0", "1", "2", "3", "4", "5", "6", "7", "8", "9"}

DigitValue(c) ==
    CASE c = "0" -> 0 [] c = "1" -> 1 [] c = "2" -> 2 [] c = "3" -> 3 [] c = "4" -> 4
      [] c = "5" -> 5 [] c = "6" -> 6 [] c = "7" -> 7 [] c = "8" -> 8 [] c = "9" -> 9

\* pd.to_numeric on a string of digits
RECURSIVE to_numeric(_)
to_numeric(s) ==
    IF s = << >> THEN 0
    ELSE 10 * to_numeric(SubSeq(s, 1, Len(s) - 1)) + DigitValue(s[Len(s)])

\* every character outside [0-9.-] is removed; what is left is NaN when it is
\* empty or a lone "-", and a number otherwise.  An empty field reaches the
\* function as "nan" and leaves it as NaN: its letters are removed.  The
\* cells drawn hold whole unsigned amounts, so the text left is made of
\* digits only.
parse_money(cell) ==
    LET kept == SelectSeq(cell, LAMBDA c : c \in Digits \cup {".", "-"})
    IN  CASE kept \in {<< >>, << "-" >>} -> NaN
          [] kept # << >> /\ \A k \in 1..Len(kept) : kept[k] \in Digits -> to_numeric(kept)

\* str() of a text cell: an empty field is read as NaN and prints as "nan"
str(cell) == IF cell = "" THEN "nan" ELSE cell

\* the first of the names that is a column, NoCol (None) when none is
NoCol == "None"
pick_col(cols, names) ==
    LET ks == {k \in 1..Len(names) : names[k] \in cols}
    IN  IF ks = {} THEN NoCol ELSE names[CHOOSE k \in ks : \A j \in ks : k <= j]

\* the columns found in the table ("Categoria" stands for the accented
\* spelling; the unaccented alias is not drawn)
id_col(cols) == pick_col(cols, << "ID" >>)
cat_col(cols) == pick_col(cols, << "Categoria" >>)
prod_col(cols) == pick_col(cols, << "Producto" >>)
p_actual(cols) == pick_col(cols, << "Precio Actual (MXN)", "Precio Actual" >>)
p_apps(cols) == pick_col(cols, << "PRECIO EN APPS", "Precio en Apps" >>)
p_min(cols) == pick_col(cols, << "PRECIO MINIMO", "Precio Minimo", "Precio minimo" >>)

\* base_map[base_col_name] over the columns found
base_col(cols, name) == IF name = "Precio Actual" THEN p_actual(cols) ELSE p_apps(cols)

\* the columns of pd.DataFrame(DEFAULT_MENU) that the model follows
DefaultCols == {"ID", "Categoria", "Producto", "Precio Actual (MXN)", "PRECIO EN APPS",
                "PRECIO MINIMO"}

\* the uploaded table lacks one of the four columns the CSV panel requires
CsvStops(u) == ~({"ID", "Categoria", "Producto", "Precio Actual (MXN)"} \subseteq u.cols)

\* the uploaded table replaces the built-in one
Replaces(u) == u.kind = "csv" /\ ~CsvStops(u)

\* a price of a row of the uploaded table, NaN when the table has no such column
MoneyCell(row, col) == IF col = NoCol THEN NaN ELSE parse_money(row[col])

LoadedRow(cols, row) ==
    MenuRow(str(row[id_col(cols)]), str(row[cat_col(cols)]), str(row[prod_col(cols)]),
            MoneyCell(row, p_actual(cols)), MoneyCell(row, p_apps(cols)),
            MoneyCell(row, p_min(cols)))

\* df as the run leaves it: the uploaded table once validated, else the built-in one
LoadDf(u) ==
    IF Replaces(u) THEN [k \in 1..Len(u.rows) |-> LoadedRow(u.cols, u.rows[k])]
    ELSE DEFAULT_MENU

\* where the load halts: st.stop() of the CSV panel, KeyError of a required
\* pick_col, st.stop() for a base-price radio without column; "" when the
\* run goes on to build the catalog
LoadHalt(u, name) ==
    LET cols == IF Replaces(u) THEN u.cols ELSE DefaultCols
    IN  IF u.kind = "csv" /\ CsvStops(u) THEN "csv"
        ELSE IF NoCol \in {id_col(cols), cat_col(cols), prod_col(cols), p_actual(cols)}
             THEN "pick_col"
        ELSE IF base_col(cols, name) = NoCol THEN "base_col"
        ELSE ""

\* ------------------------------------------------------------------------
\* Catalog (ID -> info), rebuilt on every run from df and the base column
\* ------------------------------------------------------------------------
RowIds == {df[k].ID : k \in 1..Len(df)}

\* iterrows overwrites earlier rows of the same ID: the last one wins
LastRow(pid) ==
    LET ks == {k \in 1..Len(df) : df[k].ID = pid}
    IN  df[CHOOSE k \in ks : \A j \in ks : j <= k]

catalog ==
    [pid \in RowIds |->
        LET r == LastRow(pid)
            b == r[base_map(base_col_name)]
        IN  [id |-> pid,
             categoria |-> r.Categoria,
             producto |-> r.Producto,
             precio_base |-> IF b # NaN THEN Z(b) ELSE None,
             precio_min |-> IF r.PrecioMinimo # NaN THEN Z(r.PrecioMinimo) ELSE None]]

unique_cats == {df[k].Categoria : k \in 1..Len(df)}

\* the category's fraction ignored: the 0.33 default for every product
costo_estimado_row_flat(price, cat, pcts) == RMul(price, Pct(33))

costo_estimado_row(price, cat, pcts) ==
    RMul(price, Pct(IF cat \in DOMAIN pcts THEN pcts[cat] ELSE 33))

\* ------------------------------------------------------------------------
\* price_floor_for_items and eval_combo
\* ------------------------------------------------------------------------
Item(id, qty) == [id |-> id, qty |-> qty]

RECURSIVE price_floor_from(_, _, _)
price_floor_from(items, k, s) ==
    IF k > Len(items) THEN s
    ELSE LET pid == items[k].id
             pm  == IF pid \in DOMAIN catalog THEN catalog[pid].precio_min ELSE None
         IN  IF pm # None /\ pm # Z(0)
             THEN price_floor_from(items, k + 1, RAdd(s, RMul(pm, Z(items[k].qty))))
             ELSE price_floor_from(items, k + 1, s)

price_floor_for_items(items) == price_floor_from(items, 1, Z(0))

\* eval_sums with the loop left (break) at the first unresolvable item
RECURSIVE eval_sums_break(_, _, _, _)
eval_sums_break(items, k, sb, sc) ==
    IF k > Len(items) THEN [sum_base |-> sb, sum_cost |-> sc]
    ELSE LET pid == items[k].id
         IN  IF pid \notin DOMAIN catalog \/ catalog[pid].precio_base = None
             THEN [sum_base |-> sb, sum_cost |-> sc]
             ELSE LET info == catalog[pid]
                      base == info.precio_base
                      qty  == Z(items[k].qty)
                  IN  eval_sums_break(items, k + 1,
                                      RAdd(sb, RMul(base, qty)),
                                      RAdd(sc, RMul(costo_estimado_row(base, info.categoria, cat_cost_pct), qty)))

\* the loop of eval_combo from position k with the running sums; an item
\* whose product is unknown or has no base price is skipped (continue)
RECURSIVE eval_sums(_, _, _, _)
eval_sums(items, k, sb, sc) ==
    IF k > Len(items) THEN [sum_base |-> sb, sum_cost |-> sc]
    ELSE LET pid == items[k].id
         IN  IF pid \notin DOMAIN catalog \/ catalog[pid].precio_base = None
             THEN eval_sums(items, k + 1, sb, sc)
             ELSE LET info == catalog[pid]
                      base == info.precio_base
                      qty  == Z(items[k].qty)
                  IN  eval_sums(items, k + 1,
                                RAdd(sb, RMul(base, qty)),
                                RAdd(sc, RMul(costo_estimado_row(base, info.categoria, cat_cost_pct), qty)))

\* the tail of eval_combo with the discount also guarded by precio_combo > 0
Metrics_price_guarded(sums, precio_combo) ==
    LET sum_base == sums.sum_base
        sum_cost == sums.sum_cost
        commission_cost == RMul(precio_combo, Pct(app_commission))
        total_cost_combo == RAdd(RAdd(RAdd(sum_cost, Z(packaging)), Z(other_var)), commission_cost)
        margen_abs == RSub(precio_combo, total_cost_combo)
        margen_pct == IF RLt(Z(0), precio_combo)
                      THEN RMul(RDiv(margen_abs, precio_combo), Z(100)) ELSE Z(0)
        desc_vs_base == IF RLt(Z(0), sum_base) /\ RLt(Z(0), precio_combo)
                        THEN RMul(RSub(Z(1), RDiv(precio_combo, sum_base)), Z(100)) ELSE Z(0)
    IN  [sum_base |-> sum_base, sum_cost |-> sum_cost, commission_cost |-> commission_cost,
         total_cost_combo |-> total_cost_combo, margen_abs |-> margen_abs,
         margen_pct |-> margen_pct, desc_vs_base |-> desc_vs_base]

\* the tail of eval_combo: the metrics of the two sums at a trial price
Metrics(sums, precio_combo) ==
    LET sum_base == sums.sum_base
        sum_cost == sums.sum_cost
        commission_cost == RMul(precio_combo, Pct(app_commission))
        total_cost_combo == RAdd(RAdd(RAdd(sum_cost, Z(packaging)), Z(other_var)), commission_cost)
        margen_abs == RSub(precio_combo, total_cost_combo)
        margen_pct == IF RLt(Z(0), precio_combo)
                      THEN RMul(RDiv(margen_abs, precio_combo), Z(100)) ELSE Z(0)
        desc_vs_base == IF RLt(Z(0), sum_base)
                        THEN RMul(RSub(Z(1), RDiv(precio_combo, sum_base)), Z(100)) ELSE Z(0)
    IN  [sum_base |-> sum_base, sum_cost |-> sum_cost, commission_cost |-> commission_cost,
         total_cost_combo |-> total_cost_combo, margen_abs |-> margen_abs,
         margen_pct |-> margen_pct, desc_vs_base |-> desc_vs_base]

eval_combo(items, precio_combo) == Metrics(eval_sums(items, 1, Z(0), Z(0)), precio_combo)

\* ------------------------------------------------------------------------
\* heuristic_combos
\* ------------------------------------------------------------------------
\* the three regular expressions, evaluated on the categories of the menu
MatchesPrinc(cat)   == cat \in {"Pizzas Personales", "Pizzas Familiares", "Hamburguesas", "Hot Dogs", "Pastas"}
MatchesBebidas(cat) == cat \in {"Bebidas Calientes", "Bebidas Frias"}
MatchesExtras(cat)  == cat \in {"Extras", "Snacks"}

ids     == DOMAIN catalog
princ   == {i \in ids : MatchesPrinc(catalog[i].categoria)}
bebidas == {i \in ids : MatchesBebidas(catalog[i].categoria)}
extras  == {i \in ids : MatchesExtras(catalog[i].categoria)}
pools   == {bebidas, extras, ids}

\* draws of rng.uniform(0.50, 0.60) and rng.uniform(0.15, 0.30), in hundredths
MarginDraws == {50, 60}
DiscDraws == {15, 30}

\* uuid4().hex[:4] of the j-th candidate of a call: a fresh token per candidate
HexName(j) == IF j = 1 THEN "Combo Heuristico a1f0"
              ELSE IF j = 2 THEN "Combo Heuristico 7c3e" ELSE "Combo Heuristico 09bd"

\* the while loop: every item list it can leave, from `items` with n_it slots
RECURSIVE FillSlots(_, _)
FillSlots(items, n_it) ==
    IF n_it <= 0 THEN {items}
    ELSE UNION { IF pool # {}
                 THEN UNION { FillSlots(Append(items, Item(i, 1)), n_it - 1) : i \in pool }
                 ELSE {items}
                 : pool \in pools }

\* item lists one iteration of the for loop can assemble
DrawItems(mn, mx) ==
    UNION { IF princ # {}
            THEN UNION { FillSlots(<< Item(p, 1) >>, n_it - 1) : p \in princ }
            ELSE FillSlots(<< >>, n_it)
            : n_it \in mn..mx }

\* the pricing step taking the smaller of the two rule prices
HeuristicPrice_min(items, m, d, ensure_min) ==
    LET ev == eval_combo(items, Z(1))
        p_margin == RDiv(ev.sum_cost, RSub(Z(1), Pct(m)))
        p_disc   == RMul(ev.sum_base, RSub(Z(1), Pct(d)))
        price    == IF RLt(p_margin, p_disc) THEN p_margin ELSE p_disc
    IN  IF ensure_min THEN RMax(price, price_floor_for_items(items)) ELSE price

\* the price of an assembled item list for one pair of draws
HeuristicPrice(items, m, d, ensure_min) ==
    LET ev == eval_combo(items, Z(1))
        p_margin == RDiv(ev.sum_cost, RSub(Z(1), Pct(m)))
        p_disc   == RMul(ev.sum_base, RSub(Z(1), Pct(d)))
        price    == RMax(p_margin, p_disc)
    IN  IF ensure_min THEN RMax(price, price_floor_for_items(items)) ELSE price

\* the skip condition left out: every draw is emitted
Degenerate_never(items) == FALSE

Degenerate(items) ==
    LET ev == eval_combo(items, Z(1))
    IN  RLe(ev.sum_cost, Z(0)) \/ RLe(ev.sum_base, Z(0))

\* the dict appended to `out`: the price is rounded, the metrics are those of
\* the unrounded price
Candidate(name, items, price) ==
    [name |-> name, items |-> items, precio_combo |-> Round2(price),
     metrics |-> eval_combo(items, price)]

\* what one iteration of the for loop can leave: "skip" (continue) or the
\* candidate it appends, still to be named
IterationOutcomes(mn, mx, ensure_min) ==
    UNION { IF Degenerate(items)
            THEN { [skip |-> TRUE] }
            ELSE { [skip |-> FALSE,
                    combo |-> Candidate("", items, HeuristicPrice(items, m, d, ensure_min))]
                   : <<m, d>> \in MarginDraws \X DiscDraws }
            : items \in DrawItems(mn, mx) }

\* the for loop from iteration j with the list built so far
RECURSIVE HeuristicLoop(_, _, _, _)
HeuristicLoop(j, num, outcomes, acc) ==
    IF j > num THEN {acc}
    ELSE UNION { IF o.skip
                 THEN HeuristicLoop(j + 1, num, outcomes, acc)
                 ELSE HeuristicLoop(j + 1, num, outcomes,
                                    Append(acc, [o.combo EXCEPT !.name = HexName(j)]))
                 : o \in outcomes }

\* rng.randint(min_items, max_items) raises ValueError on an empty range
heuristic_raises(num, mn, mx) == num >= 1 /\ mn > mx

heuristic_combos(num, mn, mx, ensure_min) ==
    HeuristicLoop(1, num, IterationOutcomes(mn, mx, ensure_min), << >>)

\* ------------------------------------------------------------------------
\* Menus and inputs the specifications draw from
\* ------------------------------------------------------------------------
SubMenu(S) == SelectSeq(DEFAULT_MENU, LAMBDA r : r.ID \in S)

\* the menu of a session: a table of two rows, a pizza and a cold drink
SessionMenu == SubMenu({"P003", "B007"})
\* the menu of the evaluator runs: it adds the extra that has no app price
EvalMenu == SubMenu({"P003", "B007", "E012"})
\* values of the "number of combos" slider that the runs visit (1..5 in the app)
NCombosChoices == {1, 2}
\* values of the two "items per combo" inputs that the runs visit (2..6, 2..8)
ItemsChoices == {2, 3}

\* menus handed to the generator, among them the empty one, one without
\* drinks, one without principal dishes, one with hot and cold drinks and
\* two with the extra that has no app price
HeurMenus ==
    { SubMenu(S) : S \in { {}, {"P003", "B001"}, {"P003", "SN06"}, {"D002", "B007"},
                           {"P003", "B007", "E012"}, {"D002", "P003", "B001"},
                           {"E012"}, {"B007", "E012"} } }

CostDefaults == [c \in unique_cats |-> defaults(c)]

CommissionChoices == {0, 10}
PackagingChoices == {0, 5}
OtherVarChoices == {0, 2}

\* ids a line item may name: a product, the extra without app price, a stale id
EvalIds == {"P003", "E012", "X999"}
EvalPrices == {Z(0), Z(100), R(257, 2)}

RECURSIVE SeqsUpTo(_, _)
SeqsUpTo(S, n) ==
    IF n = 0 THEN {<< >>}
    ELSE LET shorter == SeqsUpTo(S, n - 1)
         IN  shorter \cup {Append(q, x) : q \in {t \in shorter : Len(t) = n - 1}, x \in S}

ItemLists(idset, n) == SeqsUpTo({Item(i, q) : i \in idset, q \in 1..MaxQty}, n)

NoMetrics == [sum_base |-> None, sum_cost |-> None, commission_cost |-> None,
              total_cost_combo |-> None, margen_abs |-> None,
              margen_pct |-> None, desc_vs_base |-> None]

vars == << up, halt, df, cat_cost_pct, base_col_name, app_commission, packaging, other_var,
           ev_items, ev_price, ev_out,
           n_combos, min_items, max_items, ensure_min_price, combos, pc,
           GEMINI_AVAILABLE, session_state, modo_precio, desc, target_margin, enforce_min,
           trigger, out, st_error, editor, payload, runs >>

loadVars == << up, halt >>
paramVars == << loadVars, df, cat_cost_pct, base_col_name, app_commission, packaging, other_var >>
evalVars == << ev_items, ev_price, ev_out >>
genVars == << n_combos, min_items, max_items, ensure_min_price >>
sessionVars == << GEMINI_AVAILABLE, session_state, modo_precio, desc, target_margin,
                  enforce_min, trigger, out, st_error, editor, payload, runs >>

\* no file in the uploader, and a table with every column the load needs
UploaderUntouched == up = NoUpload /\ halt = ""

EmptyState == [k \in {} |-> 0]
NoOut == [type |-> "none", keys |-> {}, combos |-> << >>]
Hidden == [shown |-> FALSE]
NoPayload == [built |-> FALSE]

\* the session part of the state right after the first run of the script:
\* nothing stored, the editor stopped at the empty manual builder
FreshSession ==
    /\ session_state = EmptyState
    /\ modo_precio = "Descuento vs base"
    /\ desc = 20
    /\ target_margin = 55
    /\ enforce_min = TRUE
    /\ trigger = [op |-> "load", i |-> 0]
    /\ out = NoOut
    /\ st_error = FALSE
    /\ editor = Hidden
    /\ payload = NoPayload
    /\ runs = 0

\* ------------------------------------------------------------------------
\* SpecEval: eval_combo as a function of its arguments and the globals
\* ------------------------------------------------------------------------
InitEval ==
    /\ UploaderUntouched
    /\ df = EvalMenu
    /\ cat_cost_pct = CostDefaults
    /\ base_col_name \in BaseColNames
    /\ app_commission \in CommissionChoices
    /\ packaging \in PackagingChoices
    /\ other_var = 0
    /\ ev_items \in ItemLists(EvalIds, MaxEvalLen)
    /\ ev_price \in EvalPrices
    /\ ev_out = NoMetrics
    /\ n_combos = 3
    /\ min_items = 2
    /\ max_items = 3
    /\ ensure_min_price = TRUE
    /\ combos = << >>
    /\ pc = "ready"
    /\ GEMINI_AVAILABLE = FALSE
    /\ FreshSession

EvalCall ==
    /\ pc = "ready"
    /\ ev_out' = eval_combo(ev_items, ev_price)
    /\ pc' = "returned"
    /\ UNCHANGED << paramVars, ev_items, ev_price, genVars, combos, sessionVars >>

NextEval == EvalCall
SpecEval == InitEval /\ [][NextEval]_vars

\* ------------------------------------------------------------------------
\* SpecHeur: heuristic_combos as a function of its arguments and the catalog
\* ------------------------------------------------------------------------
InitHeur ==
    /\ UploaderUntouched
    /\ df \in HeurMenus
    /\ cat_cost_pct = CostDefaults
    /\ base_col_name \in BaseColNames
    /\ app_commission = 0
    /\ packaging = 0
    /\ other_var = 0
    /\ ev_items = << >>
    /\ ev_price = Z(0)
    /\ ev_out = NoMetrics
    /\ n_combos \in NCombosChoices
    /\ min_items \in ItemsChoices
    /\ max_items \in ItemsChoices
    /\ ensure_min_price \in BOOLEAN
    /\ combos = << >>
    /\ pc = "ready"
    /\ GEMINI_AVAILABLE = FALSE
    /\ FreshSession

HeuristicCall ==
    /\ pc = "ready"
    /\ ~heuristic_raises(n_combos, min_items, max_items)
    /\ combos' \in heuristic_combos(n_combos, min_items, max_items, ensure_min_price)
    /\ pc' = "returned"
    /\ UNCHANGED << paramVars, evalVars, genVars, sessionVars >>

\* min_items > max_items: randint raises and the call ends with the exception
HeuristicRaise ==
    /\ pc = "ready"
    /\ heuristic_raises(n_combos, min_items, max_items)
    /\ pc' = "raised"
    /\ UNCHANGED << paramVars, evalVars, genVars, sessionVars, combos >>

NextHeur == HeuristicCall \/ HeuristicRaise
SpecHeur == InitHeur /\ [][NextHeur]_vars

\* ------------------------------------------------------------------------
\* Claims about the generator
\* ------------------------------------------------------------------------
CatOf(pid) == IF pid \in DOMAIN catalog THEN catalog[pid].categoria ELSE ""
ItemCats(c) == {CatOf(c.items[k].id) : k \in 1..Len(c.items)}
Emitted == {combos[k] : k \in 1..Len(combos)}

\* C1: no emitted candidate whose principal (first item) is a pizza, burger,
\* hot-dog or pasta dish holds a hot drink, and none whose principal is a
\* breakfast dish holds a cold drink.
C1_PairingRule ==
    \A c \in Emitted :
        /\ MatchesPrinc(CatOf(c.items[1].id)) => "Bebidas Calientes" \notin ItemCats(c)
        /\ CatOf(c.items[1].id) = "Desayunos" => "Bebidas Frias" \notin ItemCats(c)

\* C10: with a non-empty catalog and min_items <= max_items every emitted
\* candidate has between min_items and max_items line items.
C10_ItemCountInRange ==
    (ids # {} /\ min_items <= max_items) =>
        \A c \in Emitted : min_items <= Len(c.items) /\ Len(c.items) <= max_items

\* the price a candidate was evaluated at (before rounding), read back from
\* its metrics: margen_abs = price - total_cost_combo
C11_Price(c) == RAdd(c.metrics.margen_abs, c.metrics.total_cost_combo)

\* the quantity-weighted sum of the minimum prices of a candidate's items
RECURSIVE C11_Floor(_, _)
C11_Floor(items, k) ==
    IF k = 0 THEN Z(0)
    ELSE LET pid == items[k].id
             pm  == IF pid \in DOMAIN catalog THEN catalog[pid].precio_min ELSE None
         IN  RAdd(C11_Floor(items, k - 1),
                  IF pm = None THEN Z(0) ELSE R(pm.n * items[k].qty, pm.d))

\* C11: the price of every emitted candidate, before rounding, is the larger
\* of sum_cost/(1-m) and sum_base*(1-d) for some m in [0.50,0.60] and d in
\* [0.15,0.30], raised to the minimum-price floor when enforcement is on; so
\* it is at least 2*sum_cost and at least 0.70*sum_base.
C11_LargerOfTwoRules ==
    \A c \in Emitted :
        LET price == C11_Price(c)
            sb == c.metrics.sum_base
            sc == c.metrics.sum_cost
        IN  /\ \E m \in 50..60 : \E d \in 15..30 :
                  LET pm == R(sc.n * 100, sc.d * (100 - m))
                      pd == R(sb.n * (100 - d), sb.d * 100)
                      larger == IF RLt(pm, pd) THEN pd ELSE pm
                      floor == C11_Floor(c.items, Len(c.items))
                  IN  price = IF ensure_min_price /\ RLt(larger, floor) THEN floor ELSE larger
            /\ RLe(R(2 * sc.n, sc.d), price)
            /\ RLe(R(70 * sb.n, 100 * sb.d), price)

\* a candidate priced by the margin rule, which beat the discount rule
C11_Witness ==
    /\ pc = "returned"
    /\ ~ensure_min_price
    /\ \E c \in Emitted :
          /\ C11_Price(c) = R(c.metrics.sum_cost.n * 100, c.metrics.sum_cost.d * 40)
          /\ RLt(R(c.metrics.sum_base.n * 85, c.metrics.sum_base.d * 100), C11_Price(c))

\* C12: a call with num returns at most num candidates, in generation order,
\* each with a positive sum of base prices and a positive sum of costs.
C12_AtMostNumAllPositive ==
    pc = "returned" =>
        /\ Len(combos) <= n_combos
        /\ \A k \in 1..Len(combos) :
              /\ RLt(Z(0), combos[k].metrics.sum_base)
              /\ RLt(Z(0), combos[k].metrics.sum_cost)
        /\ \A k, l \in 1..Len(combos) :
              k < l => \E i, j \in 1..n_combos :
                          i < j /\ combos[k].name = HexName(i) /\ combos[l].name = HexName(j)

\* a call in which one draw was skipped and the other emitted
C12_Witness ==
    pc = "returned" /\ ids # {} /\ n_combos = 2 /\ Len(combos) = 1

\* C16: heuristic_combos returns normally for every catalog and every
\* parameter combination the widgets can supply, min_items > max_items
\* included: no call ends with an exception.
C16_NeverRaises == pc # "raised"

\* C17: the first line item of every emitted candidate is a pizza, burger,
\* hot-dog or pasta product when the catalog has one, otherwise a breakfast
\* product when the catalog has one, otherwise any product.
C17_FirstIsPrincipal ==
    \A c \in Emitted :
        LET first == CatOf(c.items[1].id)
        IN  IF \E i \in ids : MatchesPrinc(catalog[i].categoria) THEN MatchesPrinc(first)
            ELSE IF \E i \in ids : catalog[i].categoria = "Desayunos" THEN first = "Desayunos"
            ELSE c.items[1].id \in ids

\* C18: every emitted candidate holds exactly one item of a principal
\* category, and every other item is a drink, snack or extra.
C18_OnePrincipal ==
    \A c \in Emitted :
        /\ Cardinality({k \in 1..Len(c.items) : MatchesPrinc(CatOf(c.items[k].id))}) = 1
        /\ \A k \in 2..Len(c.items) :
              MatchesBebidas(CatOf(c.items[k].id)) \/ MatchesExtras(CatOf(c.items[k].id))

\* ------------------------------------------------------------------------
\* Claims about the evaluator
\* ------------------------------------------------------------------------
Resolvable(it) == it.id \in DOMAIN catalog /\ catalog[it.id].precio_base # None

\* C4 as stated: at trial price 0 the evaluator yields margin percentage 0
\* and discount percentage 0, whatever the line items.
C4_ZeroPriceZeroDiscount ==
    (pc = "returned" /\ ev_price = Z(0)) =>
        (ev_out.margen_pct = Z(0) /\ ev_out.desc_vs_base = Z(0))

\* C4 amended: at trial price 0 the evaluator yields margin percentage 0; the
\* discount percentage is 0 when the sum of base prices is 0 and 100 when it
\* is positive.
C4_ZeroPrice ==
    (pc = "returned" /\ ev_price = Z(0)) =>
        /\ ev_out.margen_pct = Z(0)
        /\ ev_out.desc_vs_base = IF RLt(Z(0), ev_out.sum_base) THEN Z(100) ELSE Z(0)

C4_Witness ==
    pc = "returned" /\ ev_price = Z(0) /\ RLt(Z(0), ev_out.sum_base)

\* C6: a line item whose product is absent from the catalog or has no base
\* price contributes nothing: the result equals that of the same list with
\* those line items removed.
C6_UnresolvableSkipped ==
    pc = "returned" => ev_out = eval_combo(SelectSeq(ev_items, Resolvable), ev_price)

C6_Witness ==
    /\ pc = "returned"
    /\ \E j, k \in 1..Len(ev_items) :
          /\ j < k
          /\ ev_items[j].id \notin DOMAIN catalog
          /\ Resolvable(ev_items[k])
    /\ \E k \in 1..Len(ev_items) :
          ev_items[k].id \in DOMAIN catalog /\ catalog[ev_items[k].id].precio_base = None

\* ------------------------------------------------------------------------
\* The session: proposals, the working combo and the editor
\* ------------------------------------------------------------------------
Has(key) == key \in DOMAIN session_state
Put(ss, key, val) == [k \in DOMAIN ss \cup {key} |-> IF k = key THEN val ELSE ss[k]]

\* the proposals section runs when the key is present and the list non-empty
Proposals == IF Has("ai_combos") THEN session_state["ai_combos"] ELSE << >>

\* the price shown for a proposal (and stored when it is applied)
ShownPrice(combo) ==
    IF ensure_min_price
    THEN RMax(combo.precio_combo, price_floor_for_items(combo.items))
    ELSE combo.precio_combo

\* catalog.get(pid, {}) with the defaults the handlers give a missing key
InfoOr(pid) ==
    IF pid \in DOMAIN catalog THEN catalog[pid]
    ELSE [id |-> pid, categoria |-> "", producto |-> "", precio_base |-> Z(0), precio_min |-> Z(0)]

\* a row whose subtotals forget the quantity
WorkRow_unit(pid, qty) ==
    LET info == InfoOr(pid)
        base == IF info.precio_base = None THEN Z(0) ELSE info.precio_base
        cost == costo_estimado_row(base, info.categoria, cat_cost_pct)
    IN  [ID |-> pid, Categoria |-> info.categoria, Producto |-> info.producto,
         Cantidad |-> qty, PrecioBase |-> base, CostoEstimado |-> cost,
         PrecioMinimo |-> info.precio_min,
         SubtotalPrecio |-> base, SubtotalCosto |-> cost]

\* one row of the working table, as the apply and the manual handler build it
WorkRow(pid, qty) ==
    LET info == InfoOr(pid)
        base == IF info.precio_base = None THEN Z(0) ELSE info.precio_base
        cost == costo_estimado_row(base, info.categoria, cat_cost_pct)
    IN  [ID |-> pid, Categoria |-> info.categoria, Producto |-> info.producto,
         Cantidad |-> qty, PrecioBase |-> base, CostoEstimado |-> cost,
         PrecioMinimo |-> info.precio_min,
         SubtotalPrecio |-> RMul(Z(qty), base), SubtotalCosto |-> RMul(Z(qty), cost)]

WorkRows(items) == [k \in 1..Len(items) |-> WorkRow(items[k].id, items[k].qty)]

\* the apply handler with the rows appended to the table already stored
ApplyCandidate_append(ss, combo) ==
    LET old == IF "work_combo_items" \in DOMAIN ss THEN ss["work_combo_items"] ELSE << >>
    IN  Put(Put(Put(ss, "work_combo_name", combo.name),
                    "work_combo_price", ShownPrice(combo)),
                    "work_combo_items", old \o WorkRows(combo.items))

\* "Usar este combo": the three keys are overwritten
ApplyCandidate(ss, combo) ==
    Put(Put(Put(ss, "work_combo_name", combo.name),
                "work_combo_price", ShownPrice(combo)),
                "work_combo_items", WorkRows(combo.items))

RECURSIVE SumSubtotals(_, _)
SumSubtotals(rows, k) ==
    IF k > Len(rows) THEN Z(0) ELSE RAdd(rows[k].SubtotalPrecio, SumSubtotals(rows, k + 1))

\* the manual builder when at least one product is selected
ManualCombo(ss, rows) ==
    Put(Put(Put(ss, "work_combo_items", rows),
                "work_combo_price", SumSubtotals(rows, 1)),
                "work_combo_name", "Combo manual")

\* the generate handler storing a new list with the working combo dropped
StoreProposals_reset(ss, cs) ==
    [k \in (DOMAIN ss \cup {"ai_combos"}) \ {"work_combo_items", "work_combo_name", "work_combo_price"}
        |-> IF k = "ai_combos" THEN cs ELSE ss[k]]

\* the generate handler storing a usable answer
StoreProposals(ss, cs) == Put(ss, "ai_combos", cs)

\* ------------------------------------------------------------------------
\* The editor: sums of the stored table, strategy price, floor, metrics
\* ------------------------------------------------------------------------
RECURSIVE ColumnSum(_, _, _)
ColumnSum(rows, k, col) ==
    IF k > Len(rows) THEN Z(0)
    ELSE RAdd(IF col = "SubtotalPrecio" THEN rows[k].SubtotalPrecio
              ELSE IF col = "SubtotalCosto" THEN rows[k].SubtotalCosto
              ELSE IF rows[k].PrecioMinimo = None THEN Z(0)
              ELSE RMul(rows[k].PrecioMinimo, Z(rows[k].Cantidad)),
              ColumnSum(rows, k + 1, col))

Epsilon == R(1, 1000000)

StrategyPrice(modo, d, t, sum_price, sum_cost) ==
    IF modo = "Descuento vs base"
    THEN RMul(sum_price, RSub(Z(1), Pct(d)))
    ELSE RDiv(sum_cost, RMax(Epsilon, RSub(Z(1), Pct(t))))

\* the floor applied whatever the checkbox says
FinalPrice_always_floor(combo_price, sum_min, enforce) ==
    IF RLt(combo_price, sum_min) THEN sum_min ELSE combo_price

FinalPrice(combo_price, sum_min, enforce) ==
    IF enforce /\ RLt(combo_price, sum_min) THEN sum_min ELSE combo_price

\* the editor showing the price stored with the working combo
EditorOf_stored_price(ss, modo, d, t, enforce, commission, pack, other) ==
    IF "work_combo_items" \notin DOMAIN ss THEN Hidden
    ELSE LET work_df   == ss["work_combo_items"]
             sum_price == ColumnSum(work_df, 1, "SubtotalPrecio")
             sum_cost  == ColumnSum(work_df, 1, "SubtotalCosto")
             sum_min   == ColumnSum(work_df, 1, "PrecioMinimo")
             combo_price == ss["work_combo_price"]
             commission_cost == RMul(combo_price, Pct(commission))
             total_cost_combo == RAdd(RAdd(RAdd(sum_cost, Z(pack)), Z(other)), commission_cost)
             margin_abs == RSub(combo_price, total_cost_combo)
             margin_pct == IF RLt(Z(0), combo_price)
                           THEN RMul(RDiv(margin_abs, combo_price), Z(100)) ELSE Z(0)
             discount_vs_base == IF RLt(Z(0), sum_price)
                                 THEN RMul(RSub(Z(1), RDiv(combo_price, sum_price)), Z(100)) ELSE Z(0)
         IN  [shown |-> TRUE, sum_price |-> sum_price, sum_cost |-> sum_cost, sum_min |-> sum_min,
              combo_price |-> combo_price, commission_cost |-> commission_cost,
              total_cost_combo |-> total_cost_combo, margin_abs |-> margin_abs,
              margin_pct |-> margin_pct, discount_vs_base |-> discount_vs_base]

\* the editor with the total cost reduced to the sum of item costs
EditorOf_cost_only(ss, modo, d, t, enforce, commission, pack, other) ==
    IF "work_combo_items" \notin DOMAIN ss THEN Hidden
    ELSE LET work_df   == ss["work_combo_items"]
             sum_price == ColumnSum(work_df, 1, "SubtotalPrecio")
             sum_cost  == ColumnSum(work_df, 1, "SubtotalCosto")
             sum_min   == ColumnSum(work_df, 1, "PrecioMinimo")
             combo_price == FinalPrice(StrategyPrice(modo, d, t, sum_price, sum_cost), sum_min, enforce)
             commission_cost == RMul(combo_price, Pct(commission))
             total_cost_combo == sum_cost
             margin_abs == RSub(combo_price, total_cost_combo)
             margin_pct == IF RLt(Z(0), combo_price)
                           THEN RMul(RDiv(margin_abs, combo_price), Z(100)) ELSE Z(0)
             discount_vs_base == IF RLt(Z(0), sum_price)
                                 THEN RMul(RSub(Z(1), RDiv(combo_price, sum_price)), Z(100)) ELSE Z(0)
         IN  [shown |-> TRUE, sum_price |-> sum_price, sum_cost |-> sum_cost, sum_min |-> sum_min,
              combo_price |-> combo_price, commission_cost |-> commission_cost,
              total_cost_combo |-> total_cost_combo, margin_abs |-> margin_abs,
              margin_pct |-> margin_pct, discount_vs_base |-> discount_vs_base]

\* the editor section for a session state and the widget values of the run
EditorOf(ss, modo, d, t, enforce, commission, pack, other) ==
    IF "work_combo_items" \notin DOMAIN ss THEN Hidden
    ELSE LET work_df   == ss["work_combo_items"]
             sum_price == ColumnSum(work_df, 1, "SubtotalPrecio")
             sum_cost  == ColumnSum(work_df, 1, "SubtotalCosto")
             sum_min   == ColumnSum(work_df, 1, "PrecioMinimo")
             combo_price == FinalPrice(StrategyPrice(modo, d, t, sum_price, sum_cost), sum_min, enforce)
             commission_cost == RMul(combo_price, Pct(commission))
             total_cost_combo == RAdd(RAdd(RAdd(sum_cost, Z(pack)), Z(other)), commission_cost)
             margin_abs == RSub(combo_price, total_cost_combo)
             margin_pct == IF RLt(Z(0), combo_price)
                           THEN RMul(RDiv(margin_abs, combo_price), Z(100)) ELSE Z(0)
             discount_vs_base == IF RLt(Z(0), sum_price)
                                 THEN RMul(RSub(Z(1), RDiv(combo_price, sum_price)), Z(100)) ELSE Z(0)
         IN  [shown |-> TRUE, sum_price |-> sum_price, sum_cost |-> sum_cost, sum_min |-> sum_min,
              combo_price |-> combo_price, commission_cost |-> commission_cost,
              total_cost_combo |-> total_cost_combo, margin_abs |-> margin_abs,
              margin_pct |-> margin_pct, discount_vs_base |-> discount_vs_base]

\* a document built whether or not a working combo is stored
PayloadOf_unguarded(ss, e, base_name, modo, d, t, enforce, commission, pack, other) ==
    [built |-> TRUE,
     combo |-> IF "work_combo_name" \in DOMAIN ss THEN ss["work_combo_name"] ELSE "Combo",
     base_precios |-> base_name,
     items |-> IF "work_combo_items" \in DOMAIN ss THEN ss["work_combo_items"] ELSE << >>]

\* the export document of a run, money rounded to 2 decimals
PayloadOf(ss, e, base_name, modo, d, t, enforce, commission, pack, other) ==
    IF "work_combo_items" \notin DOMAIN ss THEN NoPayload
    ELSE [built |-> TRUE,
          combo |-> IF "work_combo_name" \in DOMAIN ss THEN ss["work_combo_name"] ELSE "Combo",
          base_precios |-> base_name,
          items |-> ss["work_combo_items"],
          suma_precios_base |-> Round2(e.sum_price),
          suma_costos_estimados |-> Round2(e.sum_cost),
          suma_precios_minimos |-> Round2(e.sum_min),
          parametros |-> [comision_app_pct |-> commission, empaque_mxn |-> pack,
                          otros_costos_mxn |-> other, modo_precio |-> modo,
                          descuento_pct |-> IF modo = "Descuento vs base" THEN d ELSE NaN,
                          margen_objetivo_pct |-> IF modo = "Margen objetivo" THEN t ELSE NaN,
                          enforce_min |-> enforce],
          precio_combo |-> Round2(e.combo_price),
          costo_total_combo |-> Round2(e.total_cost_combo),
          margen_abs |-> Round2(e.margin_abs),
          margen_pct |-> Round2(e.margin_pct)]

\* ------------------------------------------------------------------------
\* Spec: one session; every action is one rerun of the script
\* ------------------------------------------------------------------------
\* values the operator gives the widgets
FoodCostChoices(cat) == {defaults(cat), 45}
DescChoices == {0, 20, 60}
TargetMarginChoices == {10, 55, 80}
NameChoices == {"Promo Verano"}

\* what call_gemini can return when the client is configured
AICandidateA == [name |-> "Duo Pizza", items |-> << Item("P003", 1), Item("B007", 1) >>,
                 precio_combo |-> Z(129)]
AICandidateB == [name |-> "Fantasma", items |-> << Item("X999", 1), Item("E012", 2) >>,
                 precio_combo |-> Z(10)]
AICandidateC == [name |-> "Trio", items |-> << Item("P003", 2), Item("E012", 1), Item("X999", 1) >>,
                 precio_combo |-> Z(299)]
\* the items of the first candidate again, at another proposed price
AICandidateD == [name |-> "Duo Pizza", items |-> << Item("P003", 1), Item("B007", 1) >>,
                 precio_combo |-> Z(250)]
GeminiOutcomes ==
    { [type |-> "dict", keys |-> {"combos"}, combos |-> << AICandidateA, AICandidateB >>],
      [type |-> "list", keys |-> {}, combos |-> << AICandidateB >>],
      [type |-> "dict", keys |-> {"respuesta"}, combos |-> << >>],
      [type |-> "dict", keys |-> {"error"}, combos |-> << >>],
      [type |-> "str", keys |-> {}, combos |-> << >>] }

Usable(o) == (o.type = "dict" /\ "combos" \in o.keys) \/ o.type = "list"

\* a fresh session on the built-in menu, the "how many combos" slider moved
\* from its default 3 to 1
Init ==
    /\ UploaderUntouched
    /\ df = SessionMenu
    /\ cat_cost_pct = CostDefaults
    /\ base_col_name = "Precio Actual"
    /\ app_commission = 0
    /\ packaging = 0
    /\ other_var = 0
    /\ ev_items = << >>
    /\ ev_price = Z(0)
    /\ ev_out = NoMetrics
    /\ n_combos = 1
    /\ min_items = 2
    /\ max_items = 3
    /\ ensure_min_price = TRUE
    /\ combos = << >>
    /\ pc = "ready"
    /\ GEMINI_AVAILABLE \in BOOLEAN
    /\ FreshSession

costVars == << cat_cost_pct, base_col_name, app_commission, packaging, other_var >>
editVars == << modo_precio, desc, target_margin, enforce_min >>
fixedVars == << loadVars, df, evalVars, combos, pc, GEMINI_AVAILABLE >>

Op(name) == [op |-> name, i |-> 0]

\* the session is followed for MaxRuns reruns
CanRun == runs < MaxRuns

\* the rest of a run that reaches the editor and the export
Rendered(tr, o, err) ==
    /\ runs' = runs + 1
    /\ trigger' = tr
    /\ out' = o
    /\ st_error' = err
    /\ editor' = EditorOf(session_state', modo_precio', desc', target_margin', enforce_min',
                          app_commission', packaging', other_var')
    /\ payload' = PayloadOf(session_state', editor', base_col_name', modo_precio', desc',
                            target_margin', enforce_min', app_commission', packaging', other_var')

\* st.stop() left out: the error is shown and the run goes on to the editor
Aborted_continues(tr) == Rendered(tr, NoOut, TRUE)

\* a run ended before the editor, by an uncaught exception or by st.stop()
\* after an error
Aborted(tr) ==
    /\ runs' = runs + 1
    /\ trigger' = tr
    /\ out' = NoOut
    /\ st_error' = TRUE
    /\ editor' = Hidden
    /\ payload' = NoPayload

SetFoodCost ==
    /\ CanRun
    /\ \E cat \in unique_cats : \E v \in FoodCostChoices(cat) \ {cat_cost_pct[cat]} :
            /\ cat_cost_pct' = [cat_cost_pct EXCEPT ![cat] = v]
            /\ UNCHANGED << base_col_name, app_commission, packaging, other_var,
                            genVars, editVars, fixedVars, session_state >>
            /\ Rendered(Op("food_cost"), NoOut, FALSE)

SetBaseCol ==
    /\ CanRun
    /\ \E name \in BaseColNames \ {base_col_name} :
            /\ base_col_name' = name
            /\ UNCHANGED << cat_cost_pct, app_commission, packaging, other_var,
                            genVars, editVars, fixedVars, session_state >>
            /\ Rendered(Op("base_col"), NoOut, FALSE)

SetCommission ==
    /\ CanRun
    /\ \E v \in CommissionChoices \ {app_commission} :
            /\ app_commission' = v
            /\ UNCHANGED << cat_cost_pct, base_col_name, packaging, other_var,
                            genVars, editVars, fixedVars, session_state >>
            /\ Rendered(Op("commission"), NoOut, FALSE)

SetPackaging ==
    /\ CanRun
    /\ \E v \in PackagingChoices \ {packaging} :
            /\ packaging' = v
            /\ UNCHANGED << cat_cost_pct, base_col_name, app_commission, other_var,
                            genVars, editVars, fixedVars, session_state >>
            /\ Rendered(Op("packaging"), NoOut, FALSE)

SetOtherVar ==
    /\ CanRun
    /\ \E v \in OtherVarChoices \ {other_var} :
            /\ other_var' = v
            /\ UNCHANGED << cat_cost_pct, base_col_name, app_commission, packaging,
                            genVars, editVars, fixedVars, session_state >>
            /\ Rendered(Op("other_var"), NoOut, FALSE)

SetNCombos ==
    /\ CanRun
    /\ \E v \in (NCombosChoices) \ {n_combos} :
            /\ n_combos' = v
            /\ UNCHANGED << min_items, max_items, ensure_min_price,
                            costVars, editVars, fixedVars, session_state >>
            /\ Rendered(Op("n_combos"), NoOut, FALSE)

SetMinItems ==
    /\ CanRun
    /\ \E v \in (ItemsChoices) \ {min_items} :
            /\ min_items' = v
            /\ UNCHANGED << n_combos, max_items, ensure_min_price,
                            costVars, editVars, fixedVars, session_state >>
            /\ Rendered(Op("min_items"), NoOut, FALSE)

SetMaxItems ==
    /\ CanRun
    /\ \E v \in (ItemsChoices) \ {max_items} :
            /\ max_items' = v
            /\ UNCHANGED << n_combos, min_items, ensure_min_price,
                            costVars, editVars, fixedVars, session_state >>
            /\ Rendered(Op("max_items"), NoOut, FALSE)

SetEnsureMinPrice ==
    /\ CanRun
    /\ ensure_min_price' = ~ensure_min_price
    /\ UNCHANGED << n_combos, min_items, max_items,
                    costVars, editVars, fixedVars, session_state >>
    /\ Rendered(Op("ensure_min_price"), NoOut, FALSE)

\* "Generar combos (IA)" with the client configured: call_gemini's answer is
\* stored when it is a dict with "combos" or a list, else an error is shown
GenerateAI ==
    /\ CanRun
    /\ GEMINI_AVAILABLE
    /\ \E o \in GeminiOutcomes :
        /\ session_state' = IF Usable(o) THEN StoreProposals(session_state, o.combos)
                                         ELSE session_state
        /\ UNCHANGED << costVars, genVars, editVars, fixedVars >>
        /\ Rendered(Op("generate"), o, ~Usable(o))

\* the same button without the client: the heuristic generator's list
GenerateHeuristic ==
    /\ CanRun
    /\ ~GEMINI_AVAILABLE
    /\ ~heuristic_raises(n_combos, min_items, max_items)
    /\ \E cs \in heuristic_combos(n_combos, min_items, max_items, ensure_min_price) :
        /\ session_state' = StoreProposals(session_state, cs)
        /\ UNCHANGED << costVars, genVars, editVars, fixedVars >>
        /\ Rendered(Op("generate"), [type |-> "dict", keys |-> {"combos"}, combos |-> cs], FALSE)

\* ... and with min_items > max_items: randint raises, the run ends there
GenerateRaises ==
    /\ CanRun
    /\ ~GEMINI_AVAILABLE
    /\ heuristic_raises(n_combos, min_items, max_items)
    /\ UNCHANGED << costVars, genVars, editVars, fixedVars, session_state >>
    /\ Aborted(Op("generate"))

\* "Usar este combo (i)"
Apply ==
    /\ CanRun
    /\ \E i \in 1..Len(Proposals) :
            /\ session_state' = ApplyCandidate(session_state, Proposals[i])
            /\ UNCHANGED << costVars, genVars, editVars, fixedVars >>
            /\ Rendered([op |-> "apply", i |-> i], NoOut, FALSE)

\* the manual builder, shown only while no working combo is stored; the
\* quantity inputs appear in the run that stores the combo, at their default 1
ManualAdd ==
    /\ CanRun
    /\ ~Has("work_combo_items")
    /\ \E pid \in RowIds :
        /\ session_state' = ManualCombo(session_state, << WorkRow(pid, 1) >>)
        /\ UNCHANGED << costVars, genVars, editVars, fixedVars >>
        /\ Rendered(Op("manual"), NoOut, FALSE)

\* the strategy radio; only the slider of the chosen strategy is drawn, and a
\* slider that was not drawn in the run before comes back at its default
SetModoPrecio ==
    /\ CanRun
    /\ editor.shown
    /\ modo_precio' = IF modo_precio = "Descuento vs base" THEN "Margen objetivo"
                                                          ELSE "Descuento vs base"
    /\ desc' = 20
    /\ target_margin' = 55
    /\ UNCHANGED << enforce_min,
                    costVars, genVars, fixedVars, session_state >>
    /\ Rendered(Op("modo_precio"), NoOut, FALSE)

SetDesc ==
    /\ CanRun
    /\ editor.shown
    /\ modo_precio = "Descuento vs base"
    /\ \E v \in DescChoices \ {desc} :
        /\ desc' = v
        /\ UNCHANGED << modo_precio, target_margin, enforce_min,
                        costVars, genVars, fixedVars, session_state >>
        /\ Rendered(Op("desc"), NoOut, FALSE)

SetTargetMargin ==
    /\ CanRun
    /\ editor.shown
    /\ modo_precio = "Margen objetivo"
    /\ \E v \in TargetMarginChoices \ {target_margin} :
        /\ target_margin' = v
        /\ UNCHANGED << modo_precio, desc, enforce_min,
                        costVars, genVars, fixedVars, session_state >>
        /\ Rendered(Op("target_margin"), NoOut, FALSE)

SetEnforceMin ==
    /\ CanRun
    /\ editor.shown
    /\ enforce_min' = ~enforce_min
    /\ UNCHANGED << modo_precio, desc, target_margin,
                    costVars, genVars, fixedVars, session_state >>
    /\ Rendered(Op("enforce_min"), NoOut, FALSE)

\* the name field of the editor, bound to the key work_combo_name
Rename ==
    /\ CanRun
    /\ editor.shown
    /\ \E v \in NameChoices \ {session_state["work_combo_name"]} :
        /\ session_state' = Put(session_state, "work_combo_name", v)
        /\ UNCHANGED << costVars, genVars, editVars, fixedVars >>
        /\ Rendered(Op("rename"), NoOut, FALSE)

Next ==
    \/ SetFoodCost \/ SetBaseCol \/ SetCommission \/ SetPackaging \/ SetOtherVar
    \/ SetNCombos \/ SetMinItems \/ SetMaxItems \/ SetEnsureMinPrice
    \/ GenerateAI \/ GenerateHeuristic \/ GenerateRaises
    \/ Apply \/ ManualAdd
    \/ SetModoPrecio \/ SetDesc \/ SetTargetMargin \/ SetEnforceMin \/ Rename

Spec == Init /\ [][Next]_vars

\* ------------------------------------------------------------------------
\* SpecEdit: applying a proposal, over the parameters and editor widgets
\* ------------------------------------------------------------------------
\* a session on the three-row menu in which the operator has set the cost
\* parameters, built a manual combo, set the editor widgets and received the
\* AI's proposals; the table stored for the manual combo is the one built
\* with the parameters in force
InitEdit ==
    /\ UploaderUntouched
    /\ df = EvalMenu
    /\ cat_cost_pct = CostDefaults
    /\ base_col_name \in BaseColNames
    /\ app_commission \in CommissionChoices
    /\ packaging \in PackagingChoices
    /\ other_var \in OtherVarChoices
    /\ ev_items = << >>
    /\ ev_price = Z(0)
    /\ ev_out = NoMetrics
    /\ n_combos = 3
    /\ min_items = 2
    /\ max_items = 3
    /\ ensure_min_price \in BOOLEAN
    /\ combos = << >>
    /\ pc = "ready"
    /\ GEMINI_AVAILABLE = TRUE
    /\ modo_precio \in {"Descuento vs base", "Margen objetivo"}
    /\ desc \in IF modo_precio = "Descuento vs base" THEN DescChoices ELSE {20}
    /\ target_margin \in IF modo_precio = "Margen objetivo" THEN TargetMarginChoices ELSE {55}
    /\ enforce_min \in BOOLEAN
    /\ out = [type |-> "dict", keys |-> {"combos"},
              combos |-> << AICandidateA, AICandidateB, AICandidateC,
                            AICandidateD >>]
    /\ session_state = StoreProposals(ManualCombo(EmptyState, << WorkRow("B007", 1) >>), out.combos)
    /\ trigger = Op("generate")
    /\ st_error = FALSE
    /\ editor = EditorOf(session_state, modo_precio, desc, target_margin, enforce_min,
                         app_commission, packaging, other_var)
    /\ payload = PayloadOf(session_state, editor, base_col_name, modo_precio, desc,
                           target_margin, enforce_min, app_commission, packaging, other_var)
    /\ runs = 0

NextEdit == Apply
SpecEdit == InitEdit /\ [][NextEdit]_vars

\* ------------------------------------------------------------------------
\* SpecLoad: a file put in, replaced in, or taken out of the CSV uploader
\* ------------------------------------------------------------------------
\* the rows of the uploaded tables: a clean row with a "$" in its price, a
\* row with an empty product name, a row whose prices are not amounts
CsvRow(id, cat, prod, actual, apps, pmin) ==
    ("ID" :> id) @@ ("Categoria" :> cat) @@ ("Producto" :> prod)
    @@ ("Precio Actual (MXN)" :> actual) @@ ("Precio Actual" :> actual)
    @@ ("PRECIO EN APPS" :> apps) @@ ("PRECIO MINIMO" :> pmin)

UploadRows ==
    << CsvRow("P003", "Pizzas Personales", "Pepperoni",
              << "$", "1", "5", "0" >>, << "2", "2", "9" >>, << "1", "4", "9" >>),
       CsvRow("B007", "Bebidas Frias", "",
              << "3", "5" >>, << "4", "9" >>, << "4", "5" >>),
       CsvRow("X001", "Postres", "Flan",
              << "N", "/", "A" >>, << >>, << "-" >>) >>

\* the headers of the uploaded tables: complete, one column short, or with
\* the alias "Precio Actual" in place of "Precio Actual (MXN)"
UploadCols ==
    {DefaultCols} \cup {DefaultCols \ {c} : c \in DefaultCols}
    \cup {(DefaultCols \ {"Precio Actual (MXN)"}) \cup {"Precio Actual"}}

CsvWith(cols) ==
    Csv(cols, [k \in 1..Len(UploadRows) |-> [h \in cols |-> UploadRows[k][h]]])

Uploads == {NoUpload, Unreadable} \cup {CsvWith(cols) : cols \in UploadCols}

\* a session on the built-in table in which the operator has set the cost
\* parameters and built a manual combo, so that the editor and the export
\* are on screen
InitLoad ==
    /\ UploaderUntouched
    /\ df = DEFAULT_MENU
    /\ cat_cost_pct = CostDefaults
    /\ base_col_name \in BaseColNames
    /\ app_commission \in CommissionChoices
    /\ packaging \in PackagingChoices
    /\ other_var = 0
    /\ ev_items = << >>
    /\ ev_price = Z(0)
    /\ ev_out = NoMetrics
    /\ n_combos = 3
    /\ min_items = 2
    /\ max_items = 3
    /\ ensure_min_price = TRUE
    /\ combos = << >>
    /\ pc = "ready"
    /\ GEMINI_AVAILABLE = TRUE
    /\ modo_precio = "Descuento vs base"
    /\ desc = 20
    /\ target_margin = 55
    /\ enforce_min \in BOOLEAN
    /\ out = NoOut
    /\ session_state = ManualCombo(EmptyState, << WorkRow("B007", 1) >>)
    /\ trigger = Op("manual")
    /\ st_error = FALSE
    /\ editor = EditorOf(session_state, modo_precio, desc, target_margin, enforce_min,
                         app_commission, packaging, other_var)
    /\ payload = PayloadOf(session_state, editor, base_col_name, modo_precio, desc,
                           target_margin, enforce_min, app_commission, packaging, other_var)
    /\ runs = 0

\* the run after the uploader's content changed: the CSV panel, the
\* normalisation and the column picks, the sliders of the table's
\* categories, the base-column check, then the rest of the script
Upload ==
    /\ CanRun
    /\ \E u \in Uploads \ {up} :
        LET h == LoadHalt(u, base_col_name)
            t == LoadDf(u)
            cats == {t[k].Categoria : k \in 1..Len(t)}
        IN  /\ up' = u
            /\ halt' = h
            /\ df' = t
            /\ cat_cost_pct' = [c \in cats |-> IF c \in DOMAIN cat_cost_pct
                                               THEN cat_cost_pct[c] ELSE defaults(c)]
            /\ UNCHANGED << base_col_name, app_commission, packaging, other_var,
                            evalVars, genVars, editVars, combos, pc, GEMINI_AVAILABLE,
                            session_state >>
            /\ IF h # "" THEN Aborted(Op("upload"))
               ELSE Rendered(Op("upload"), NoOut, u = Unreadable)

NextLoad == Upload
SpecLoad == InitLoad /\ [][NextLoad]_vars

\* ------------------------------------------------------------------------
\* Claims about the session
\* ------------------------------------------------------------------------
Populated == Has("work_combo_items")
WorkDf == session_state["work_combo_items"]
LineItems(rows) == [k \in 1..Len(rows) |-> Item(rows[k].ID, rows[k].Cantidad)]

\* C2: when the AI client is configured and its answer is not a usable combo
\* list (free text, an object without combos, an error object), the stored
\* proposals are an output of the heuristic generator and no error is shown.
C2_FallbackOnUnusable ==
    (trigger.op = "generate" /\ GEMINI_AVAILABLE /\ out.type # "none" /\ ~Usable(out)) =>
        /\ ~st_error
        /\ Has("ai_combos")
        /\ session_state["ai_combos"] \in
               heuristic_combos(n_combos, min_items, max_items, ensure_min_price)

\* C3: whenever the editor is shown, its sums, total cost and margin (and
\* their rounded values in the export) are those the evaluator computes from
\* the working combo's line items with the parameters and base prices in force.
C3_MetricsCurrent ==
    editor.shown =>
        LET ev == eval_combo(LineItems(WorkDf), editor.combo_price)
        IN  /\ editor.sum_price = ev.sum_base
            /\ editor.sum_cost = ev.sum_cost
            /\ editor.total_cost_combo = ev.total_cost_combo
            /\ editor.margin_abs = ev.margen_abs
            /\ payload.suma_precios_base = Round2(ev.sum_base)
            /\ payload.suma_costos_estimados = Round2(ev.sum_cost)
            /\ payload.costo_total_combo = Round2(ev.total_cost_combo)
            /\ payload.margen_abs = Round2(ev.margen_abs)

\* the strategy price written out: discount off the sum of base prices, or
\* the sum of costs over one minus the target margin
C5_Strategy ==
    IF modo_precio = "Descuento vs base"
    THEN R(editor.sum_price.n * (100 - desc), editor.sum_price.d * 100)
    ELSE R(editor.sum_cost.n * 100, editor.sum_cost.d * (100 - target_margin))

RECURSIVE C5_WeightedMinimum(_, _)
C5_WeightedMinimum(rows, k) ==
    IF k = 0 THEN Z(0)
    ELSE RAdd(C5_WeightedMinimum(rows, k - 1), RMul(Z(rows[k].Cantidad), rows[k].PrecioMinimo))

\* C5: the final price is the quantity-weighted sum of minimum prices when
\* enforcement is on and the strategy price is below that sum, and the
\* strategy price in every other case.
C5_FloorAfterStrategy ==
    editor.shown =>
        LET floor == C5_WeightedMinimum(WorkDf, Len(WorkDf))
        IN  editor.combo_price =
                IF enforce_min /\ RLt(C5_Strategy, floor) THEN floor ELSE C5_Strategy

C5_Witness ==
    /\ editor.shown
    /\ enforce_min
    /\ modo_precio = "Margen objetivo"
    /\ RLt(Z(0), C5_Strategy)
    /\ RLt(C5_Strategy, editor.sum_min)
    /\ editor.combo_price = editor.sum_min

\* C7: a session starts without a working combo, and once one is stored
\* every later run (generate, apply, parameter or strategy change, rename)
\* leaves one stored.
C7_NeverEmptyAgain == ~Populated /\ [][Populated => Populated']_vars

C7_Witness == Populated /\ trigger.op = "generate" /\ Has("ai_combos")

\* C8: the manual builder can be operated while a working combo is stored.
C8_ManualEditWhenPopulated == (Populated /\ CanRun) => ENABLED ManualAdd

\* C9: after a candidate is applied the working combo has exactly the
\* candidate's line items (ids, quantities, order) and the candidate's name.
C9_ApplyReplaces ==
    trigger.op = "apply" =>
        LET c == Proposals[trigger.i]
        IN  /\ LineItems(WorkDf) = c.items
            /\ session_state["work_combo_name"] = c.name

C9_Witness ==
    /\ trigger.op = "apply"
    /\ trigger.i = 2
    /\ runs = MaxRuns
    /\ Len(WorkDf) = 2

\* ------------------------------------------------------------------------
\* Claims about the editor after a proposal is applied
\* ------------------------------------------------------------------------
\* the target-margin case with commission or fixed costs and a positive cost
C13_Case ==
    /\ editor.shown
    /\ modo_precio = "Margen objetivo"
    /\ (app_commission > 0 \/ packaging + other_var > 0)
    /\ RLt(Z(0), editor.sum_cost)

\* C13 as stated: in that case the realized margin percentage is strictly
\* below the target, whatever the floor toggle says.
C13_BelowTargetAnyFloor ==
    C13_Case => RLt(editor.margin_pct, Z(target_margin))

\* C13 amended: in that case the realized margin percentage is strictly
\* below the target whenever the floor did not raise the price (enforcement
\* off, or the target-margin price not below the sum of minimum prices).
C13_BelowTargetUnlessFloored ==
    (C13_Case /\ (~enforce_min \/ RLe(editor.sum_min, C5_Strategy))) =>
        RLt(editor.margin_pct, Z(target_margin))

C13_Witness ==
    /\ trigger.op = "apply"
    /\ C13_Case
    /\ ~enforce_min
    /\ app_commission > 0
    /\ RLt(editor.combo_price, editor.sum_min)

\* the inputs of the end-to-end example: A = P003, B = B007
C14_Inputs ==
    /\ trigger.op = "apply"
    /\ LineItems(WorkDf) = << Item("P003", 1), Item("B007", 1) >>
    /\ base_col_name = "Precio Actual"
    /\ cat_cost_pct["Pizzas Personales"] = 32
    /\ cat_cost_pct["Bebidas Frias"] = 28
    /\ app_commission = 10
    /\ packaging = 5
    /\ other_var = 0
    /\ modo_precio = "Margen objetivo"
    /\ target_margin = 55

\* the figures of the example: 185, 57.8, 57.8/0.45 (128.44 in the export),
\* 12.844, 75.644 and 41.1 to the decimals given
C14_Figures ==
    /\ editor.sum_price = Z(185)
    /\ editor.sum_cost = R(578, 10)
    /\ editor.combo_price = R(5780, 45)
    /\ payload.precio_combo = R(12844, 100)
    /\ RLe(R(12844, 1000), editor.commission_cost) /\ RLt(editor.commission_cost, R(12845, 1000))
    /\ RLe(R(75644, 1000), editor.total_cost_combo) /\ RLt(editor.total_cost_combo, R(75645, 1000))
    /\ RLe(R(4105, 100), editor.margin_pct) /\ RLt(editor.margin_pct, R(4115, 100))

\* C14 as stated: with the example's inputs the program yields the
\* example's figures.
C14_Example == C14_Inputs => C14_Figures

\* C14 amended: it does with the floor enforcement switched off.
C14_ExampleFloorOff == (C14_Inputs /\ ~enforce_min) => C14_Figures

C14_Witness == C14_Inputs /\ ~enforce_min /\ payload.built

\* C20: right after a candidate is applied the editor's sums, commission,
\* total cost, margins and discount are those of eval_combo on the
\* candidate's items at the editor's final price, and its sum of minimum
\* prices is price_floor_for_items of those items.
C20_EditorIsEvaluator ==
    trigger.op = "apply" =>
        LET c  == Proposals[trigger.i]
            ev == eval_combo(c.items, editor.combo_price)
        IN  /\ editor.sum_price = ev.sum_base
            /\ editor.sum_cost = ev.sum_cost
            /\ editor.commission_cost = ev.commission_cost
            /\ editor.total_cost_combo = ev.total_cost_combo
            /\ editor.margin_abs = ev.margen_abs
            /\ editor.margin_pct = ev.margen_pct
            /\ editor.discount_vs_base = ev.desc_vs_base
            /\ editor.sum_min = price_floor_for_items(c.items)

\* a candidate with a priced product, one without base price and a stale id
C20_Witness ==
    /\ trigger.op = "apply"
    /\ base_col_name = "Precio en Apps"
    /\ \E j, k, l \in 1..Len(WorkDf) :
          /\ Resolvable(Item(WorkDf[j].ID, 1))
          /\ WorkDf[k].ID \in DOMAIN catalog /\ catalog[WorkDf[k].ID].precio_base = None
          /\ WorkDf[l].ID \notin DOMAIN catalog
    /\ RLt(Z(0), editor.sum_price)

\* ------------------------------------------------------------------------
\* Claims about the load
\* ------------------------------------------------------------------------
\* the table handed in has no column for a mandatory field: the id, the
\* category, the product name, or the base price the radio selects
C15_Case ==
    /\ up.kind = "csv"
    /\ NoCol \in {id_col(up.cols), cat_col(up.cols), prod_col(up.cols),
                  base_col(up.cols, base_col_name)}

\* C15: when a mandatory field has no matching column in the table handed
\* in, the run halts with an error on screen before the catalog is built,
\* and shows no proposal, no editor figures and no export document
C15_MissingColumnHalts ==
    C15_Case => /\ halt # ""
                /\ st_error
                /\ out = NoOut
                /\ editor = Hidden
                /\ payload = NoPayload

C15_Witness ==
    /\ C15_Case
    /\ trigger = Op("upload")
    /\ base_col(up.cols, base_col_name) = NoCol
    /\ halt = "base_col"
    /\ Populated

\* a row without product name, or without a base price that parses
C19_Lacking(r) == r.Producto = "nan" \/ r[base_map(base_col_name)] = NaN

\* C19: once the load is through, the catalog has no entry for a row that
\* lacks a product name or a parseable base price, and every product in it
\* has a non-null base price
C19_RowsDropped ==
    (up.kind = "csv" /\ halt = "") =>
        /\ \A k \in 1..Len(df) : C19_Lacking(df[k]) => df[k].ID \notin DOMAIN catalog
        /\ \A pid \in DOMAIN catalog : catalog[pid].precio_base # None

\* ------------------------------------------------------------------------
\* Claims about the editor and the export as functions of the session
\* ------------------------------------------------------------------------
\* the proposals with the line items of the applied one at another price
C21_Twins ==
    {j \in 1..Len(Proposals) :
        /\ Proposals[j].items = Proposals[trigger.i].items
        /\ ShownPrice(Proposals[j]) # ShownPrice(Proposals[trigger.i])}

\* the figures of an export document
C21_Exported(p) ==
    << p.suma_precios_base, p.suma_costos_estimados, p.suma_precios_minimos,
       p.precio_combo, p.costo_total_combo, p.margen_abs, p.margen_pct >>

\* the editor and the export of a session holding ss, under the widgets in force
C21_EditorFor(ss) ==
    EditorOf(ss, modo_precio, desc, target_margin, enforce_min, app_commission, packaging,
             other_var)
C21_PayloadFor(ss) ==
    PayloadOf(ss, C21_EditorFor(ss), base_col_name, modo_precio, desc, target_margin,
              enforce_min, app_commission, packaging, other_var)

\* C21: the final price of the editor and the figures of the export do not
\* depend on the price stored with the working combo: after a candidate is
\* applied they are those of the strategy and the floor over the line items,
\* they stay the same whatever price is stored, and a session applying a
\* candidate with the same items at another proposed price gets the same
\* final price and the same exported figures
C21_ProposedPriceIgnored ==
    trigger.op = "apply" =>
        /\ editor.combo_price = FinalPrice(StrategyPrice(modo_precio, desc, target_margin,
                                                         editor.sum_price, editor.sum_cost),
                                           editor.sum_min, enforce_min)
        /\ payload.precio_combo = Round2(editor.combo_price)
        /\ \A x \in {Z(0), Z(1000)} :
              C21_EditorFor([session_state EXCEPT !["work_combo_price"] = x]) = editor
        /\ \A j \in C21_Twins :
              LET ss == ApplyCandidate(session_state, Proposals[j])
              IN  /\ ss["work_combo_items"] = WorkDf
                  /\ ss["work_combo_price"] # session_state["work_combo_price"]
                  /\ C21_EditorFor(ss).combo_price = editor.combo_price
                  /\ C21_Exported(C21_PayloadFor(ss)) = C21_Exported(payload)

C21_Witness ==
    /\ trigger.op = "apply"
    /\ C21_Twins # {}
    /\ payload.built
    /\ session_state["work_combo_price"] # editor.combo_price

\* C22: an export document exists only over a stored working combo of at
\* least one line item, whose rows it carries; a run that ends with no
\* working combo stored stopped at the empty manual builder, before the
\* editor's figures and the export
C22_ExportOnlyWhenPopulated ==
    /\ payload.built => /\ Populated
                        /\ Len(WorkDf) >= 1
                        /\ payload.items = WorkDf
                        /\ editor.shown
    /\ ~Populated => editor = Hidden /\ payload = NoPayload

C22_Witness ==
    /\ ~Populated
    /\ trigger.op = "generate"
    /\ Has("ai_combos")
    /\ ~payload.built

====
